---- MODULE Spec2Model ----
(***************************************************************************)
(* A model of braintree.py: the minibatch feeder (TensorFlowData), the     *)
(* training loop and evaluator (TensorFlowModel) and the index algebra of  *)
(* the soft-tree graph (BrainTree).                                        *)
(*                                                                         *)
(* Rows of a dataset are tagged 1..N (index provenance): predictors[i] is  *)
(* the tag of the row at position i and response[i] the response value     *)
(* stored at position i.  Python's None is the empty sequence and a        *)
(* supplied value v the one-element sequence <<v>>.                        *)
(***************************************************************************)
EXTENDS Integers, Sequences, FiniteSets

\* ------------------------------------------------------------- bounds
\* Largest number of observations of a dataset in the feeder specifications.
MaxN == 3
\* Largest batch_size passed to get_batch in the feeder specification.
MaxB == 2
\* Seeds passed to shuffle are 0..MaxSeed (and None).
MaxSeed == 1
\* Draws of the generator tracked after a seeding; later states are unknown.
MaxDraws == 0

\* Largest max_depth of a tree in the graph specification.
MaxDepth == 2
\* A routing probability p is the integer p * ProbScale, in 0..ProbScale.
ProbScale == 3

\* The values of all session variables are abstracted to 0..ParamStates-1.
ParamStates == 3
\* A batch's loss is abstracted to 0..LossStates-1.
LossStates == 2
\* Largest training_steps and print_every passed to train.
MaxTrainingSteps == 3
MaxPrintEvery == 2
\* train is called while the entries it will append fit a log of MaxLog.
MaxLog == 2
\* Largest number of observations of a dataset in the model specification.
MaxRows == 2

\* ------------------------------------------------------------- values
None == <<>>

Some(v) == <<v>>

Feeders == {"train", "validation"}

\* The response value that starts in the row tagged `row` (two rows may share it).
ResponseOf(row) == row % 2

Range(s) == {s[i] : i \in 1..Len(s)}

RECURSIVE Fact(_)
Fact(n) == IF n <= 1 THEN 1 ELSE n * Fact(n - 1)

RECURSIVE Flatten(_)
Flatten(ss) == IF ss = <<>> THEN <<>> ELSE Head(ss) \o Flatten(Tail(ss))

\* The index arrays np.random.permutation(n) can return (1-based here).
RECURSIVE PermutationsOf(_)
PermutationsOf(n) ==
    IF n = 0 THEN {<<>>}
    ELSE {SubSeq(p, 1, i - 1) \o <<n>> \o SubSeq(p, i, n - 1) :
              p \in PermutationsOf(n - 1), i \in 1..n}

RECURSIVE PermutationsUpTo(_)
PermutationsUpTo(n) ==
    IF n = 0 THEN <<>> ELSE Append(PermutationsUpTo(n - 1), PermutationsOf(n))

\* Computed once, for every number of rows a dataset can have.
PermutationTable == PermutationsUpTo(MaxN + 1)

Permutations(n) == IF n = 0 THEN {<<>>} ELSE PermutationTable[n]

Remove(s, i) == SubSeq(s, 1, i - 1) \o SubSeq(s, i + 1, Len(s))

\* The idx-th arrangement of items: what a generator in a known state returns
\* is a function of that state alone.
RECURSIVE NthPerm(_, _)
NthPerm(items, idx) ==
    IF items = <<>> THEN <<>>
    ELSE LET f == Fact(Len(items) - 1)
             i == (idx \div f) + 1
         IN <<items[i]>> \o NthPerm(Remove(items, i), idx % f)

\* ------------------------------------------------------------- np.random
\* The global generator: <<>> when its state is not known (initialised from
\* the operating system's entropy, or past the tracked draws), <<seed, draws>>
\* after np.random.seed(seed) and `draws` permutation draws.
RngStates ==
    {<<>>} \cup {<<s, k>> : s \in 1..MaxSeed, k \in 0..MaxDraws}

\* np.random.seed(seed)
NpRandomSeed(seed) == <<seed, 0>>

\* np.random.permutation(n): the outcomes [new_order, rng] possible in state g.
NpRandomPermutation(g, n) ==
    IF g = <<>>
    THEN {[new_order |-> p, rng |-> <<>>] : p \in Permutations(n)}
    ELSE {[new_order |-> NthPerm([i \in 1..n |-> i],
                                 (g[1] * 7 + g[2] * 3 + 1) % Fact(n)),
           rng |-> IF g[2] + 1 > MaxDraws THEN <<>> ELSE <<g[1], g[2] + 1>>]}

\* ------------------------------------------------------------- TensorFlowData
\* TensorFlowData.__init__
TensorFlowData(predictors, response, shuffle_each_epoch) ==
    [predictors |-> predictors,
     response |-> response,
     batch_index |-> 0,
     reached_end |-> FALSE,
     num_observations |-> Len(predictors),
     shuffle_each_epoch |-> shuffle_each_epoch]

\* A dataset of n tagged rows.
Dataset(n, shuffle_each_epoch) ==
    TensorFlowData([i \in 1..n |-> i], [i \in 1..n |-> ResponseOf(i)],
                   shuffle_each_epoch)

\* a[new_order, :]: fancy indexing builds a new array, row i being a[new_order[i]].
TakeRows(a, new_order) == [i \in 1..Len(new_order) |-> a[new_order[i]]]

\* a[batch_start:batch_end, :]: a Python slice, clipped to the array.
SliceRows(a, batch_start, batch_end) ==
    LET lo == IF batch_start > Len(a) THEN Len(a) ELSE batch_start
        hi == IF batch_end > Len(a) THEN Len(a) ELSE batch_end
    IN IF hi <= lo THEN <<>> ELSE SubSeq(a, lo + 1, hi)

\* `if random_seed:` -- None and 0 are both false.
Truthy(random_seed) == random_seed # None /\ random_seed[1] # 0

ResponseOrder_Unpermuted(fd, new_order) == fd.response

\* self.response[new_order, :]
ResponseOrder(fd, new_order) == TakeRows(fd.response, new_order)

\* TensorFlowData.shuffle: the outcomes [fd, rng] possible with generator g.
Shuffle(fd, random_seed, g) ==
    LET g1 == IF Truthy(random_seed) THEN NpRandomSeed(random_seed[1]) ELSE g
    IN {[fd |-> [fd EXCEPT !.predictors = TakeRows(fd.predictors, d.new_order),
                           !.response = ResponseOrder(fd, d.new_order)],
         rng |-> d.rng] : d \in NpRandomPermutation(g1, fd.num_observations)}

PastEnd_NoLookahead(batch_index, batch_size, num_observations) ==
    batch_index >= num_observations

PastEnd_Geq(batch_index, batch_size, num_observations) ==
    batch_index + batch_size >= num_observations

\* The wrap test of _update_batch_index, on the already advanced cursor.
PastEnd(batch_index, batch_size, num_observations) ==
    batch_index + batch_size > num_observations

\* TensorFlowData._update_batch_index: the outcomes [fd, rng].
UpdateBatchIndex(fd, batch_size, g) ==
    LET advanced == [fd EXCEPT !.batch_index = fd.batch_index + batch_size]
    IN IF PastEnd(advanced.batch_index, batch_size, fd.num_observations)
       THEN LET wrapped == [advanced EXCEPT !.batch_index = 0, !.reached_end = TRUE]
            IN IF fd.shuffle_each_epoch
               THEN Shuffle(wrapped, None, g)
               ELSE {[fd |-> wrapped, rng |-> g]}
       ELSE {[fd |-> advanced, rng |-> g]}

\* The batch get_batch builds before it moves the cursor.  np.reshape raises
\* ValueError unless the slice holds exactly batch_size rows.
BatchData(fd, batch_size) ==
    LET batch_start == fd.batch_index
        batch_end == fd.batch_index + batch_size
    IN [predictors |-> SliceRows(fd.predictors, batch_start, batch_end),
        response |-> SliceRows(fd.response, batch_start, batch_end)]

ReshapeRaises(batch, batch_size) ==
    Len(batch.predictors) # batch_size \/ Len(batch.response) # batch_size

HasReachedEndClears_Keep(fd) == fd

\* TensorFlowData.has_reached_end: the feeder after the call (its result is
\* fd.reached_end).
HasReachedEndClears(fd) == [fd EXCEPT !.reached_end = FALSE]

ResetBatchIndexOf_KeepFlag(fd) == [fd EXCEPT !.batch_index = 0]

\* TensorFlowData.reset_batch_index
ResetBatchIndexOf(fd) == [fd EXCEPT !.reached_end = FALSE, !.batch_index = 0]

\* ------------------------------------------------------------- BrainTree graph
\* The node axis of the tensors, for one batch item and one tree (every
\* operation used is elementwise on the batch and tree axes).  Depths and
\* gather indices are 0-based as in the source; sequences are 1-based.
RECURSIVE Pow(_, _)
Pow(b, e) == IF e = 0 THEN 1 ELSE b * Pow(b, e - 1)

RECURSIVE SumSeq(_)
SumSeq(t) == IF t = <<>> THEN 0 ELSE Head(t) + SumSeq(Tail(t))

\* [i for i in range(n)]
RangeList(n) == [i \in 1..n |-> i - 1]

\* Python's list * times
RECURSIVE RepeatList(_, _)
RepeatList(list, times) ==
    IF times <= 0 THEN <<>> ELSE list \o RepeatList(list, times - 1)

\* tf.gather(t, indices) along the node axis
Gather(t, indices) == [l \in 1..Len(indices) |-> t[indices[l] + 1]]

GatherIndices_RepeatEach(depth, max_depth) ==
    [l \in 1..Pow(2, max_depth) |-> (l - 1) \div Pow(2, max_depth - depth - 1)]

\* The index list of the gather that ends _build_split_prob.
GatherIndices(depth, max_depth) ==
    RepeatList(RangeList(Pow(2, depth + 1)), Pow(2, max_depth - depth - 1))

\* 1 - prob, on the scaled integers
Complement(prob) == [i \in 1..Len(prob) |-> ProbScale - prob[i]]

\* BrainTree._build_split_prob(depth), given the sigmoid's output `prob` for
\* the 2^depth nodes of the level.
BuildSplitProb(prob, depth, max_depth) ==
    LET prob_with_complement == prob \o Complement(prob)
    IN Gather(prob_with_complement, GatherIndices(depth, max_depth))

\* tf.reduce_prod(tf.stack(levels, axis=3), axis=3)
RECURSIVE ReduceProd(_, _)
ReduceProd(levels, rows) ==
    IF levels = <<>> THEN [l \in 1..rows |-> 1]
    ELSE LET rest == ReduceProd(Tail(levels), rows)
         IN [l \in 1..rows |-> Head(levels)[l] * rest[l]]

\* [self._build_split_prob(depth) for depth in range(self.max_depth)]
SplitProbList(probs, max_depth) ==
    [d \in 1..max_depth |-> BuildSplitProb(probs[d], d - 1, max_depth)]

TfStackRaises_Never(values) == FALSE

\* tf.stack(values, axis=3) reads values[0] for the shape of its result: on
\* an empty list that is an IndexError.
TfStackRaises(values) == Len(values) = 0

\* terminal_prob of BrainTree._build_predictions
TerminalProb(probs, max_depth) ==
    LET split_prob == SplitProbList(probs, max_depth)
    IN ReduceProd(split_prob, Pow(2, max_depth))

\* ------------------------------------------------------------- TensorFlowModel
\* Dropout rates, in tenths.
DropoutRates == {0, 5, 10}

\* dropout_rate=0.5, the constructor's default
DefaultDropoutRate == 5

\* input_dict["dropout:0"] = 1.0 in score
ScoreDropout == 10

\* The batch with the "dropout:0" entry added: what session.run is fed.
FeedDict(batch, dropout) ==
    [predictors |-> batch.predictors, response |-> batch.response,
     dropout |-> dropout]

SessionRunOptimizer_Dropout(values, input_dict) ==
    (values + 1 + SumSeq(input_dict.predictors) + input_dict.dropout) % ParamStates

\* session.run([self.optimizer, self.loss], feed_dict): the variables after
\* one Adagrad update, a function of their values and the batch fed.
SessionRunOptimizer(values, input_dict) ==
    (values + 1 + SumSeq(input_dict.predictors)) % ParamStates

SessionRunLossVariables_Updated(values, input_dict) ==
    (values + 1 + SumSeq(input_dict.predictors)) % ParamStates

\* session.run([self.loss], feed_dict) fetches the loss only: no assignment
\* to a variable is among the operations it runs.
SessionRunLossVariables(values, input_dict) == values

\* session.run([self.loss], feed_dict): the batch's mean squared error, a
\* function of the variables and the batch fed.
SessionRunLoss(values, input_dict) ==
    (values + SumSeq(input_dict.predictors) + SumSeq(input_dict.response)) % LossStates

\* math.sqrt(np.mean(scores)), kept exact as the sum and the count of the
\* losses; n = 0 is the nan that np.mean returns for an empty list.
Rmse(scores) == [sum |-> SumSeq(scores), n |-> Len(scores)]

IsNan(value) == value.n = 0

Filenames == {"a", "b"}

SaverSave_Nothing(files, filename, values) == files

\* self.saver.save(self.session, filename)
SaverSave(files, filename, values) == [files EXCEPT ![filename] = Some(values)]

SaverRestore_Nothing(files, filename, values) == values

\* self.saver.restore(self.session, filename), for a file that exists
SaverRestore(files, filename, values) == files[filename][1]

TrainContinues_Leq(current_step, training_steps) == current_step <= training_steps

\* `while current_step < training_steps`
TrainContinues(current_step, training_steps) == current_step < training_steps

ScoreStops_Never(fd) == FALSE

\* `while not data.has_reached_end()`: the loop ends when the call returns True.
ScoreStops(fd) == fd.reached_end

\* ------------------------------------------------------------- state
VARIABLES
    feeder,      \* [Feeders -> TensorFlowData object]
    rng,         \* the state of np.random's global generator
    batch_data,  \* what the call just made returned, when it was a get_batch
    lastCall,    \* history: the last call, its argument, its result and the feeder as it found it
    reads,       \* history: per feeder, the results of the (at most two) last has_reached_end calls since a batch was served
    epoch,       \* history: per feeder, the batches served since the cursor was last 0, kept until the call after the wrap
    shuffled,    \* history: per feeder, the random_seed of its explicit shuffle call (twin-feeder specification)
    max_depth,   \* BrainTree.max_depth
    node_prob,   \* per level, the sigmoid's output for each internal node, scaled by ProbScale
    terminal_prob, \* the path probability of each leaf once the graph is built, else None
    graph_error, \* whether building the graph raised
    batch_size,  \* BrainTree.batch_size
    dropout_rate, \* BrainTree.dropout_rate, in tenths
    twin,        \* per dropout rate: the same calls on a model configured with it
    session,     \* the values of the session's variables (parameters and optimizer slots)
    checkpoint,  \* by filename, the variable values a save wrote, else None
    fit_log,     \* TensorFlowModel.fit_log
    pc,          \* where control is: idle, or in train's or score's loop
    train_call,  \* the running or last train: its arguments, locals and history
    score_call,  \* the running or last score: its argument, locals and history
    returned,    \* the call that returned last, and its result
    roundtrip    \* history: the last save, whether it was restored, over what

feederVars == <<feeder, rng, batch_data, lastCall, reads, epoch, shuffled>>

graphVars == <<max_depth, node_prob, terminal_prob, graph_error>>

modelVars ==
    <<batch_size, dropout_rate, twin, session, checkpoint, fit_log, pc,
      train_call, score_call,
      returned, roundtrip>>

vars == <<feederVars, graphVars, modelVars>>

NoBatch == [predictors |-> <<>>, response |-> <<>>]

NoCall ==
    [op |-> "init", f |-> "train", arg |-> None, ret |-> FALSE, raised |-> FALSE,
     pre |-> Dataset(1, FALSE)]

Call(op, f, arg, ret, raised) ==
    [op |-> op, f |-> f, arg |-> arg, ret |-> ret, raised |-> raised,
     pre |-> feeder[f]]

\* No pass is being followed: the cursor left 0 in a way the claims do not cover.
Void ==
    [valid |-> FALSE, size |-> 0, batches |-> <<>>, fired |-> FALSE,
     clear |-> FALSE, order |-> <<>>]

\* The pass after get_batch(batch_size) served `batch` from fd, leaving `post`.
\* A pass starts at cursor 0 and is followed while the same batch_size is used;
\* the call wrapped iff it left the cursor at 0.
NextEpoch(ep, fd, size, batch, post) ==
    IF fd.batch_index = 0
    THEN [valid |-> TRUE, size |-> size, batches |-> <<batch.predictors>>,
          fired |-> post.batch_index = 0, clear |-> ~fd.reached_end,
          order |-> fd.predictors]
    ELSE IF ep.valid /\ ep.size = size /\ ~ep.fired
    THEN [ep EXCEPT !.batches = Append(@, batch.predictors),
                    !.fired = post.batch_index = 0]
    ELSE Void

\* A completed pass is history once another call is made.
Forget(ep) == IF ep.fired THEN Void ELSE ep

LastTwo(s) == IF Len(s) <= 2 THEN s ELSE SubSeq(s, Len(s) - 1, Len(s))

\* ------------------------------------------------------------- feeder calls
\* data.get_batch(batch_size), with batch_size = size
GetBatch(f, size) ==
    LET fd == feeder[f]
        batch == BatchData(fd, size)
    IN IF ReshapeRaises(batch, size)
       THEN /\ lastCall' = Call("get_batch", f, Some(size), FALSE, TRUE)
            /\ batch_data' = NoBatch
            /\ epoch' = [epoch EXCEPT ![f] = Forget(@)]
            /\ UNCHANGED <<feeder, rng, reads>>
       ELSE \E o \in UpdateBatchIndex(fd, size, rng) :
                /\ feeder' = [feeder EXCEPT ![f] = o.fd]
                /\ rng' = o.rng
                /\ batch_data' = batch
                /\ lastCall' = Call("get_batch", f, Some(size), FALSE, FALSE)
                /\ reads' = [reads EXCEPT ![f] = <<>>]
                /\ epoch' = [epoch EXCEPT
                                ![f] = NextEpoch(@, fd, size, batch, o.fd)]

\* data.has_reached_end()
HasReachedEnd(f) ==
    LET result == feeder[f].reached_end
    IN /\ feeder' = [feeder EXCEPT ![f] = HasReachedEndClears(@)]
       /\ lastCall' = Call("has_reached_end", f, None, result, FALSE)
       /\ reads' = [reads EXCEPT ![f] = LastTwo(Append(@, result))]
       /\ batch_data' = NoBatch
       /\ epoch' = [epoch EXCEPT ![f] = Forget(@)]
       /\ UNCHANGED rng

\* data.reset_batch_index()
ResetBatchIndex(f) ==
    /\ feeder' = [feeder EXCEPT ![f] = ResetBatchIndexOf(@)]
    /\ lastCall' = Call("reset_batch_index", f, None, FALSE, FALSE)
    /\ epoch' = [epoch EXCEPT ![f] = Void]
    /\ batch_data' = NoBatch
    /\ UNCHANGED <<rng, reads>>

\* data.shuffle(random_seed)
ShuffleCall(f, random_seed) ==
    \E o \in Shuffle(feeder[f], random_seed, rng) :
        /\ feeder' = [feeder EXCEPT ![f] = o.fd]
        /\ rng' = o.rng
        /\ lastCall' = Call("shuffle", f, random_seed, FALSE, FALSE)
        /\ epoch' = [epoch EXCEPT ![f] = Void]
        /\ batch_data' = NoBatch
        /\ UNCHANGED reads

Seeds == {None} \cup {Some(s) : s \in 0..MaxSeed}

\* ------------------------------------------------------------- one feeder
\* The feeder's four calls, in any order and with any batch_size, on one
\* dataset.
\* The values of the variables a specification leaves alone.
NoFeeders ==
    /\ feeder = [f \in Feeders |-> Dataset(1, FALSE)]
    /\ rng = <<>>

NoGraph ==
    /\ max_depth = 0
    /\ node_prob = <<>>
    /\ terminal_prob = None
    /\ graph_error = FALSE

NoTrain ==
    [caller |-> "idle", training_steps |-> 0, print_every |-> 0, current_step |-> 0,
     left |-> 0, base |-> 0, pulled |-> 0, passes |-> 0]

NoScore ==
    [data |-> "validation", caller |-> "idle", scores |-> <<>>, starts |-> <<>>,
     pre_index |-> 0, pre_end |-> FALSE]

NoReturn == [op |-> "none", raised |-> FALSE, value |-> Rmse(<<>>)]

NoRoundtrip ==
    [active |-> FALSE, filename |-> "a", values |-> 0, restored |-> FALSE,
     overwritten |-> 0]

EmptyLog == [batch_number |-> <<>>, validation_score |-> <<>>]

\* The twin models before any call: like the model, but for the rate.
NoTwin ==
    [r \in DropoutRates |->
        [session |-> 0, checkpoint |-> [fn \in Filenames |-> None],
         scores |-> <<>>, fit_log |-> EmptyLog]]

\* scores = [] at the start of score, in every twin
TwinScoresReset(tw) == [r \in DropoutRates |-> [tw[r] EXCEPT !.scores = <<>>]]

NoSession ==
    /\ dropout_rate = DefaultDropoutRate
    /\ twin = NoTwin
    /\ session = 0
    /\ checkpoint = [fn \in Filenames |-> None]
    /\ fit_log = EmptyLog
    /\ pc = "idle"
    /\ train_call = NoTrain
    /\ score_call = NoScore
    /\ returned = NoReturn
    /\ roundtrip = NoRoundtrip

NoModel ==
    /\ batch_size = 1
    /\ NoSession

InitHistory ==
    /\ batch_data = NoBatch
    /\ lastCall = NoCall
    /\ reads = [f \in Feeders |-> <<>>]
    /\ epoch = [f \in Feeders |-> Void]
    /\ shuffled = [f \in Feeders |-> None]

InitFeeder ==
    /\ \E n \in 1..MaxN, s \in BOOLEAN :
           feeder = [f \in Feeders |->
                        IF f = "train" THEN Dataset(n, s) ELSE Dataset(1, FALSE)]
    /\ rng \in RngStates
    /\ InitHistory
    /\ NoGraph
    /\ NoModel

CallGetBatch ==
    /\ \E size \in 1..MaxB : GetBatch("train", size)
    /\ UNCHANGED <<shuffled, graphVars, modelVars>>

CallHasReachedEnd ==
    /\ HasReachedEnd("train")
    /\ UNCHANGED <<shuffled, graphVars, modelVars>>

CallResetBatchIndex ==
    /\ ResetBatchIndex("train")
    /\ UNCHANGED <<shuffled, graphVars, modelVars>>

CallShuffle ==
    /\ \E random_seed \in Seeds : ShuffleCall("train", random_seed)
    /\ UNCHANGED <<shuffled, graphVars, modelVars>>

NextFeeder ==
    \/ CallGetBatch
    \/ CallHasReachedEnd
    \/ CallResetBatchIndex
    \/ CallShuffle

SpecFeeder == InitFeeder /\ [][NextFeeder]_vars

\* ------------------------------------------------------------- one batch size
\* The feeder's four calls in any order, get_batch always with the one
\* batch_size the feeder's user was built with, which the dataset can serve.
GetBatchOfBatchSize ==
    /\ GetBatch("train", batch_size)
    /\ UNCHANGED <<shuffled, graphVars, modelVars>>

InitCursor ==
    /\ \E n \in 1..MaxN, s \in BOOLEAN :
           feeder = [f \in Feeders |->
                        IF f = "train" THEN Dataset(n, s) ELSE Dataset(1, FALSE)]
    /\ rng = <<>>
    /\ batch_size \in 1..MaxB
    /\ batch_size <= feeder["train"].num_observations
    /\ InitHistory
    /\ NoGraph
    /\ NoSession

NextCursor ==
    \/ GetBatchOfBatchSize
    \/ CallHasReachedEnd
    \/ CallResetBatchIndex
    \/ CallShuffle

SpecCursor == InitCursor /\ [][NextCursor]_vars

\* ------------------------------------------------------------- twin feeders
\* Two feeders built on identical data, each shuffled once with a seed of the
\* caller's choice, from any state of the generator.
TwinShuffle(f, random_seed) ==
    /\ shuffled[f] = None
    /\ ShuffleCall(f, random_seed)
    /\ shuffled' = [shuffled EXCEPT ![f] = Some(random_seed)]
    /\ UNCHANGED <<graphVars, modelVars>>

InitShuffle ==
    /\ \E n \in 1..MaxN, s \in BOOLEAN : \E p \in Permutations(n) :
           feeder = [f \in Feeders |->
                        TensorFlowData(TakeRows(Dataset(n, s).predictors, p),
                                       TakeRows(Dataset(n, s).response, p), s)]
    /\ rng \in RngStates
    /\ InitHistory
    /\ NoGraph
    /\ NoModel

NextShuffle == \E f \in Feeders, random_seed \in Seeds : TwinShuffle(f, random_seed)

SpecShuffle == InitShuffle /\ [][NextShuffle]_vars

\* ------------------------------------------------------------- model
\* One model with a training and a validation feeder: train, score, save
\* and restore are called one at a time (the program is single-threaded).
\* A loop of train or score is followed iteration by iteration; no other
\* call starts until the running one has returned.
feederHistory == <<batch_data, lastCall, reads, epoch, shuffled>>

CeilDiv(a, b) == (a + b - 1) \div b

\* A restored round trip is history once another call is made.
Passed(rt) == IF rt.restored THEN NoRoundtrip ELSE rt

FitLogAppend_Overwrite(log, current_step, current_score) ==
    [batch_number |-> <<current_step>>, validation_score |-> <<current_score>>]

\* self.fit_log["batch_number"].append(current_step) and
\* self.fit_log["validation_score"].append(current_score)
FitLogAppend(log, current_step, current_score) ==
    [batch_number |-> Append(log.batch_number, current_step),
     validation_score |-> Append(log.validation_score, current_score)]

\* model.train(train_data, validation_data, training_steps, print_every)
Train(training_steps, print_every) ==
    /\ pc = "idle"
    /\ Len(fit_log.batch_number) + CeilDiv(training_steps, print_every) <= MaxLog
    /\ pc' = "train_while"
    /\ train_call' = [caller |-> "train",
                      training_steps |-> training_steps,
                      print_every |-> print_every,
                      current_step |-> 0, left |-> 0,
                      base |-> Len(fit_log.batch_number),
                      pulled |-> 0, passes |-> 0]
    /\ score_call' = NoScore
    /\ twin' = TwinScoresReset(twin)
    /\ returned' = NoReturn
    /\ roundtrip' = Passed(roundtrip)
    /\ UNCHANGED <<feeder, rng, batch_size, dropout_rate, session, checkpoint, fit_log,
                   feederHistory, graphVars>>

\* The test of train's while loop: enter _train_steps, or return.
TrainWhile ==
    /\ pc = "train_while"
    /\ IF TrainContinues(train_call.current_step, train_call.training_steps)
       THEN /\ pc' = "train_steps"
            /\ train_call' = [train_call EXCEPT !.left = train_call.print_every]
            /\ returned' = returned
       ELSE /\ pc' = "idle"
            /\ train_call' = train_call
            /\ returned' = [op |-> "train", raised |-> FALSE, value |-> Rmse(<<>>)]
    /\ UNCHANGED <<feeder, rng, batch_size, dropout_rate, twin, session, checkpoint,
                   fit_log, score_call, roundtrip, feederHistory, graphVars>>

\* model._train_steps(train_data, num_steps), called directly
TrainStepsOnly(num_steps) ==
    /\ pc = "idle"
    /\ pc' = "train_steps"
    /\ train_call' = [NoTrain EXCEPT !.left = num_steps]
    /\ score_call' = NoScore
    /\ twin' = TwinScoresReset(twin)
    /\ returned' = NoReturn
    /\ roundtrip' = Passed(roundtrip)
    /\ UNCHANGED <<feeder, rng, batch_size, dropout_rate, session, checkpoint, fit_log,
                   feederHistory, graphVars>>

\* One iteration of _train_steps' for loop; when the range is exhausted it
\* returns: to train, where current_step advances and score(validation_data)
\* is entered, or to its caller.
TrainSteps ==
    /\ pc = "train_steps"
    /\ IF train_call.left > 0
       THEN LET fd == feeder["train"]
                batch == BatchData(fd, batch_size)
                input_dict == FeedDict(batch, dropout_rate)
            IN IF ReshapeRaises(batch, batch_size)
               THEN /\ pc' = "idle"
                    /\ returned' = [op |-> "train", raised |-> TRUE,
                                    value |-> Rmse(<<>>)]
                    /\ train_call' = NoTrain
                    /\ UNCHANGED <<feeder, rng, session, score_call, twin>>
               ELSE \E o \in UpdateBatchIndex(fd, batch_size, rng) :
                        /\ feeder' = [feeder EXCEPT !["train"] = o.fd]
                        /\ rng' = o.rng
                        /\ session' = SessionRunOptimizer(session, input_dict)
                        /\ twin' = [r \in DropoutRates |->
                                       [twin[r] EXCEPT !.session =
                                           SessionRunOptimizer(@, FeedDict(batch, r))]]
                        /\ train_call' = [train_call EXCEPT !.left = @ - 1,
                                                            !.pulled = @ + 1]
                        /\ UNCHANGED <<pc, returned, score_call>>
       ELSE IF train_call.caller = "train"
       THEN /\ pc' = "score"
            /\ train_call' = [train_call EXCEPT
                                 !.current_step = @ + train_call.print_every]
            /\ score_call' = [data |-> "validation", caller |-> "train",
                              scores |-> <<>>, starts |-> <<>>,
                              pre_index |-> feeder["validation"].batch_index,
                              pre_end |-> feeder["validation"].reached_end]
            /\ twin' = TwinScoresReset(twin)
            /\ UNCHANGED <<feeder, rng, session, returned>>
       ELSE /\ pc' = "idle"
            /\ returned' = [op |-> "_train_steps", raised |-> FALSE,
                            value |-> Rmse(<<>>)]
            /\ train_call' = NoTrain
            /\ UNCHANGED <<feeder, rng, session, score_call, twin>>
    /\ UNCHANGED <<batch_size, dropout_rate, checkpoint, fit_log, roundtrip, feederHistory,
                   graphVars>>

\* model.score(data), called directly
Score(data) ==
    /\ pc = "idle"
    /\ pc' = "score"
    /\ score_call' = [data |-> data, caller |-> "idle", scores |-> <<>>,
                      starts |-> <<>>,
                      pre_index |-> feeder[data].batch_index,
                      pre_end |-> feeder[data].reached_end]
    /\ train_call' = NoTrain
    /\ twin' = TwinScoresReset(twin)
    /\ returned' = NoReturn
    /\ roundtrip' = Passed(roundtrip)
    /\ UNCHANGED <<feeder, rng, batch_size, dropout_rate, session, checkpoint, fit_log,
                   feederHistory, graphVars>>

\* One test of score's while loop, has_reached_end() included, and then
\* either the loop body or the return (to train, which logs the score).
ScoreLoop ==
    /\ pc = "score"
    /\ LET data == score_call.data
           fd == HasReachedEndClears(feeder[data])
       IN IF ScoreStops(feeder[data])
          THEN /\ feeder' = [feeder EXCEPT ![data] = fd]
               /\ IF score_call.caller = "train"
                  THEN /\ pc' = "train_while"
                       /\ fit_log' = FitLogAppend(fit_log, train_call.current_step,
                                                   Rmse(score_call.scores))
                       /\ twin' = [r \in DropoutRates |->
                                      [twin[r] EXCEPT !.fit_log =
                                          FitLogAppend(@, train_call.current_step,
                                                       Rmse(twin[r].scores))]]
                       /\ train_call' = [train_call EXCEPT !.passes = @ + 1]
                       /\ returned' = returned
                  ELSE /\ pc' = "idle"
                       /\ returned' = [op |-> "score", raised |-> FALSE,
                                       value |-> Rmse(score_call.scores)]
                       /\ UNCHANGED <<fit_log, train_call, twin>>
               /\ UNCHANGED <<rng, score_call, session>>
          ELSE LET batch == BatchData(fd, batch_size)
                   input_dict == FeedDict(batch, ScoreDropout)
               IN IF ReshapeRaises(batch, batch_size)
                  THEN /\ pc' = "idle"
                       /\ returned' = [op |-> score_call.caller, raised |-> TRUE,
                                       value |-> Rmse(<<>>)]
                       /\ score_call' = NoScore
                       /\ train_call' = NoTrain
                       /\ twin' = TwinScoresReset(twin)
                       /\ UNCHANGED <<feeder, rng, fit_log, session>>
                  ELSE \E o \in UpdateBatchIndex(fd, batch_size, rng) :
                           /\ feeder' = [feeder EXCEPT ![data] = o.fd]
                           /\ rng' = o.rng
                           /\ score_call' =
                                  [score_call EXCEPT
                                      !.scores = Append(@, SessionRunLoss(session, input_dict)),
                                      !.starts = Append(@, fd.batch_index)]
                           /\ session' = SessionRunLossVariables(session, input_dict)
                           /\ twin' = [r \in DropoutRates |->
                                          [twin[r] EXCEPT
                                              !.scores = Append(@, SessionRunLoss(
                                                             twin[r].session, input_dict)),
                                              !.session = SessionRunLossVariables(
                                                              @, input_dict)]]
                           /\ UNCHANGED <<pc, returned, fit_log, train_call>>
    /\ UNCHANGED <<batch_size, dropout_rate, checkpoint, roundtrip, feederHistory,
                   graphVars>>

\* model.save(filename)
Save(filename) ==
    /\ pc = "idle"
    /\ checkpoint' = SaverSave(checkpoint, filename, session)
    /\ returned' = [op |-> "save", raised |-> FALSE, value |-> Rmse(<<>>)]
    /\ roundtrip' = [active |-> TRUE, filename |-> filename, values |-> session,
                     restored |-> FALSE, overwritten |-> session]
    /\ train_call' = NoTrain
    /\ score_call' = NoScore
    /\ twin' = [r \in DropoutRates |->
                   [twin[r] EXCEPT
                       !.scores = <<>>,
                       !.checkpoint = SaverSave(@, filename, twin[r].session)]]
    /\ UNCHANGED <<feeder, rng, batch_size, dropout_rate, session, fit_log, pc,
                   feederHistory,
                   graphVars>>

\* model.restore(filename); the saver raises when no such file was written.
Restore(filename) ==
    /\ pc = "idle"
    /\ IF checkpoint[filename] = None
       THEN /\ returned' = [op |-> "restore", raised |-> TRUE, value |-> Rmse(<<>>)]
            /\ roundtrip' = NoRoundtrip
            /\ session' = session
       ELSE /\ returned' = [op |-> "restore", raised |-> FALSE, value |-> Rmse(<<>>)]
            /\ session' = SaverRestore(checkpoint, filename, session)
            /\ roundtrip' = IF /\ roundtrip.active
                               /\ ~roundtrip.restored
                               /\ roundtrip.filename = filename
                            THEN [roundtrip EXCEPT !.restored = TRUE,
                                                   !.overwritten = session]
                            ELSE NoRoundtrip
    /\ twin' = [r \in DropoutRates |->
                   [twin[r] EXCEPT
                       !.scores = <<>>,
                       !.session = IF twin[r].checkpoint[filename] = None THEN @
                                   ELSE SaverRestore(twin[r].checkpoint, filename, @)]]
    /\ train_call' = NoTrain
    /\ score_call' = NoScore
    /\ UNCHANGED <<feeder, rng, batch_size, dropout_rate, checkpoint, fit_log, pc,
                   feederHistory, graphVars>>

\* A model built with any batch_size that both feeders can serve and the
\* default dropout rate (its twins have the other rates); the training
\* feeder may reshuffle each epoch, the validation feeder keeps its order.
InitModel ==
    /\ \E n \in 1..MaxRows, m \in 1..MaxRows, s \in BOOLEAN :
           feeder = [f \in Feeders |->
                        IF f = "train" THEN Dataset(n, s) ELSE Dataset(m, FALSE)]
    /\ rng = <<>>
    /\ batch_size \in 1..MaxRows
    /\ \A f \in Feeders : batch_size <= feeder[f].num_observations
    /\ dropout_rate = DefaultDropoutRate
    /\ twin = NoTwin
    /\ session = 0
    /\ checkpoint = [fn \in Filenames |-> None]
    /\ fit_log = EmptyLog
    /\ pc = "idle"
    /\ train_call = NoTrain
    /\ score_call = NoScore
    /\ returned = NoReturn
    /\ roundtrip = NoRoundtrip
    /\ InitHistory
    /\ NoGraph

Init == InitModel

CallTrain ==
    \E training_steps \in 0..MaxTrainingSteps, print_every \in 1..MaxPrintEvery :
        Train(training_steps, print_every)

CallScore == \E data \in Feeders : Score(data)

Next ==
    \/ CallTrain
    \/ TrainWhile
    \/ TrainSteps
    \/ CallScore
    \/ ScoreLoop

Spec == Init /\ [][Next]_vars

\* ------------------------------------------------------------- persistence
\* One model whose variables are saved to and restored from files, with
\* optimization steps (_train_steps) in between.
CallTrainSteps == \E num_steps \in 1..MaxPrintEvery : TrainStepsOnly(num_steps)

CallSave == \E filename \in Filenames : Save(filename)

CallRestore == \E filename \in Filenames : Restore(filename)

InitSaver == InitModel

NextSaver ==
    \/ CallTrainSteps
    \/ TrainSteps
    \/ CallSave
    \/ CallRestore

SpecSaver == InitSaver /\ [][NextSaver]_vars


\* ------------------------------------------------------------- session
\* One model that is trained, scored, saved and restored in any order, on
\* feeders that keep their order and with one checkpoint file.
SessionFiles == {"a"}

CallSaveSession == \E filename \in SessionFiles : Save(filename)

CallRestoreSession == \E filename \in SessionFiles : Restore(filename)

InitSession ==
    /\ InitModel
    /\ \A f \in Feeders : ~feeder[f].shuffle_each_epoch

NextSession ==
    \/ CallTrain
    \/ TrainWhile
    \/ TrainSteps
    \/ CallScore
    \/ ScoreLoop
    \/ CallSaveSession
    \/ CallRestoreSession

SpecSession == InitSession /\ [][NextSession]_vars

\* ------------------------------------------------------------- running calls
\* The program is sequential: a call that has started goes on executing, so
\* every step of a running train or score is eventually taken.  When the
\* next call is made, if ever, is up to the caller.  Whether a call
\* returns does not depend on the order of the rows, so the feeders here do
\* not reshuffle.
Running ==
    /\ WF_vars(TrainWhile)
    /\ WF_vars(TrainSteps)
    /\ WF_vars(ScoreLoop)

SpecRunning == InitSession /\ [][Next]_vars /\ Running

\* ------------------------------------------------------------- graph
\* One tree of any depth with any routing probabilities at its internal
\* nodes; building the predictions computes the leaves' path probabilities.
LevelProbs(depth) == [1..Pow(2, depth) -> 0..ProbScale]

BuildPredictions ==
    /\ terminal_prob = None
    /\ ~graph_error
    /\ IF TfStackRaises(SplitProbList(node_prob, max_depth))
       THEN /\ graph_error' = TRUE
            /\ terminal_prob' = None
       ELSE /\ graph_error' = FALSE
            /\ terminal_prob' = Some(TerminalProb(node_prob, max_depth))
    /\ UNCHANGED <<max_depth, node_prob, feederVars, modelVars>>

\* Every assignment of probabilities to the levels 0..depth-1.
RECURSIVE ProbAssignments(_)
ProbAssignments(depth) ==
    IF depth = 0 THEN {<<>>}
    ELSE {Append(ps, level) : ps \in ProbAssignments(depth - 1),
                              level \in LevelProbs(depth - 1)}

InitGraph ==
    /\ max_depth \in 0..MaxDepth
    /\ node_prob \in ProbAssignments(max_depth)
    /\ terminal_prob = None
    /\ graph_error = FALSE
    /\ NoFeeders
    /\ InitHistory
    /\ NoModel

NextGraph == BuildPredictions

SpecGraph == InitGraph /\ [][NextGraph]_vars

\* ------------------------------------------------------------- feeder claims
DivisiblePass(f) ==
    /\ epoch[f].valid
    /\ feeder[f].num_observations % epoch[f].size = 0

NoRowTwice(rows) == \A i, j \in 1..Len(rows) : rows[i] = rows[j] => i = j

\* C1: in a pass of get_batch(B) calls that starts at cursor 0 with B dividing
\* N, the call that sets reached_end is the (N/B)-th and no earlier one, the
\* batches served never repeat a row, and the N/B batches of the completed
\* pass hold every one of the N rows exactly once; a pass that started with
\* the flag clear leaves it clear until that call.
C1_FullEpochServesEveryRowOnce ==
    \A f \in Feeders :
        DivisiblePass(f) =>
            LET ep == epoch[f]
                n == feeder[f].num_observations
                rows == Flatten(ep.batches)
            IN /\ Len(ep.batches) <= n \div ep.size
               /\ ep.fired <=> Len(ep.batches) = n \div ep.size
               /\ NoRowTwice(rows)
               /\ ep.fired => /\ Len(rows) = n
                              /\ Range(rows) = 1..n
                              /\ feeder[f].reached_end
               /\ (ep.clear /\ ~ep.fired) => ~feeder[f].reached_end

\* A completed pass of three batches over a reshuffling feeder.
C1_Witness ==
    /\ DivisiblePass("train")
    /\ epoch["train"].fired
    /\ epoch["train"].clear
    /\ Len(epoch["train"].batches) = 3
    /\ feeder["train"].shuffle_each_epoch
    /\ feeder["train"].predictors # epoch["train"].order

\* C4: has_reached_end returns the flag and clears it, leaving cursor and row
\* order alone, so of two calls with no served batch between them the second
\* returns False (never True twice).
C4_HasReachedEndIsReadOnce ==
    /\ \A f \in Feeders :
           /\ reads[f] # <<TRUE, TRUE>>
           /\ (Len(reads[f]) = 2 /\ reads[f][1]) => ~reads[f][2]
    /\ lastCall.op = "has_reached_end" =>
           /\ lastCall.ret = lastCall.pre.reached_end
           /\ ~feeder[lastCall.f].reached_end
           /\ feeder[lastCall.f] = [lastCall.pre EXCEPT !.reached_end = FALSE]

\* The flag was set, the first call returned True and the second False.
C4_Witness ==
    /\ reads["train"] = <<TRUE, FALSE>>
    /\ lastCall.op = "has_reached_end"
    /\ feeder["train"].batch_index = 0
    /\ feeder["train"].predictors # Dataset(feeder["train"].num_observations, TRUE).predictors

PairsAt(predictors, response) ==
    /\ Len(predictors) = Len(response)
    /\ \A i \in 1..Len(predictors) : response[i] = ResponseOf(predictors[i])

PairCount(fd, row, value) ==
    Cardinality({i \in 1..Len(fd.predictors) :
                    fd.predictors[i] = row /\ fd.response[i] = value})

\* C5: whatever calls were made, position i of the response holds the
\* response that started with the row at position i of the predictors, the
\* multiset of (row, response) pairs is the initial one, and a returned batch
\* pairs each row with its own response.
C5_RowPairingInvariant ==
    /\ \A f \in Feeders :
           LET fd == feeder[f]
               initial == Dataset(fd.num_observations, fd.shuffle_each_epoch)
           IN /\ Len(fd.predictors) = fd.num_observations
              /\ PairsAt(fd.predictors, fd.response)
              /\ \A row \in 1..fd.num_observations, value \in {0, 1} :
                     PairCount(fd, row, value) = PairCount(initial, row, value)
    /\ PairsAt(batch_data.predictors, batch_data.response)

\* A batch served from a reordered dataset: its rows are not the ones that
\* started at the positions served.
C5_Witness ==
    /\ lastCall.op = "get_batch"
    /\ ~lastCall.raised
    /\ Len(batch_data.predictors) = 2
    /\ batch_data.predictors # SubSeq(Dataset(3, TRUE).predictors,
                                      lastCall.pre.batch_index + 1,
                                      lastCall.pre.batch_index + 2)
    /\ batch_data.response[1] # batch_data.response[2]

TruncatedPass(f) ==
    /\ epoch[f].valid
    /\ epoch[f].size <= feeder[f].num_observations
    /\ feeder[f].num_observations % epoch[f].size # 0

\* C6: with B <= N not dividing N, a pass of get_batch(B) calls from cursor 0
\* never fails and serves floor(N/B) batches of exactly B rows, the first
\* floor(N/B)*B rows of the order in force, wrapping on the last of them; the
\* trailing N mod B rows of that order are not served.
C6_PartialBatchIsSkipped ==
    /\ \A f \in Feeders :
           TruncatedPass(f) =>
               LET ep == epoch[f]
                   n == feeder[f].num_observations
                   full == n \div ep.size
                   rows == Flatten(ep.batches)
               IN /\ Len(ep.batches) <= full
                  /\ ep.fired <=> Len(ep.batches) = full
                  /\ \A k \in 1..Len(ep.batches) : Len(ep.batches[k]) = ep.size
                  /\ rows = SubSeq(ep.order, 1, Len(ep.batches) * ep.size)
                  /\ ep.fired =>
                         Range(rows) \cap Range(SubSeq(ep.order, full * ep.size + 1, n)) = {}
    /\ (lastCall.op = "get_batch" /\ lastCall.raised) =>
           LET n == lastCall.pre.num_observations
               b == lastCall.arg[1]
           IN (b <= n /\ n % b # 0) =>
                  /\ lastCall.pre.batch_index # 0
                  /\ ~(epoch[lastCall.f].valid /\ epoch[lastCall.f].size = b)

\* Three rows served two at a time: one batch, then the wrap and a reshuffle.
C6_Witness ==
    /\ TruncatedPass("train")
    /\ epoch["train"].fired
    /\ epoch["train"].size = 2
    /\ Len(epoch["train"].batches) = 1
    /\ feeder["train"].predictors # epoch["train"].order

\* C10: reset_batch_index leaves the cursor at 0 and the flag clear and
\* changes nothing else: the rows keep their order, also on a feeder that
\* reshuffles at the end of an epoch.
C10_ResetClearsCursorAndFlagOnly ==
    lastCall.op = "reset_batch_index" =>
        /\ feeder[lastCall.f].batch_index = 0
        /\ ~feeder[lastCall.f].reached_end
        /\ feeder[lastCall.f] =
               [lastCall.pre EXCEPT !.batch_index = 0, !.reached_end = FALSE]

\* A reset that found the cursor advanced and the flag set, on a reshuffling
\* feeder whose rows were already reordered.
C10_Witness ==
    /\ lastCall.op = "reset_batch_index"
    /\ lastCall.pre.batch_index > 0
    /\ lastCall.pre.reached_end
    /\ lastCall.pre.shuffle_each_epoch
    /\ lastCall.pre.predictors # Dataset(lastCall.pre.num_observations, TRUE).predictors
    /\ feeder[lastCall.f].predictors = lastCall.pre.predictors

\* ------------------------------------------------------------- shuffle claims
SameSeedSupplied(f, g) ==
    /\ shuffled[f] # None
    /\ shuffled[g] # None
    /\ shuffled[f] = shuffled[g]
    /\ shuffled[f][1] # None

SameOrder(f, g) ==
    /\ feeder[f].predictors = feeder[g].predictors
    /\ feeder[f].response = feeder[g].response

\* C9: two feeders holding identical data, each shuffled with the same
\* supplied seed, end in the same row order, whatever the generator's state
\* was before each call.
C9_SeededShuffleIsDeterministic ==
    \A f, g \in Feeders : SameSeedSupplied(f, g) => SameOrder(f, g)

\* C9, for the seeds Python holds true (any but 0): the same order results.
C9_NonzeroSeedIsDeterministic ==
    \A f, g \in Feeders :
        (SameSeedSupplied(f, g) /\ Truthy(shuffled[f][1])) => SameOrder(f, g)

\* Both feeders shuffled with seed 1 into an order that is not the one they
\* started in.
C9_NonzeroSeedWitness ==
    /\ SameSeedSupplied("train", "validation")
    /\ shuffled["train"][1] = Some(1)
    /\ feeder["train"].num_observations = 3
    /\ feeder["train"].predictors # lastCall.pre.predictors

\* ------------------------------------------------------------- graph claims
\* C8: for every depth D >= 1 and every routing probability at the internal
\* nodes, the path probabilities of the 2^D leaves sum to 1 (to ProbScale^D
\* on the scaled integers).
C8_PathProbabilitiesSumToOne ==
    terminal_prob # None =>
        /\ Len(terminal_prob[1]) = Pow(2, max_depth)
        /\ SumSeq(terminal_prob[1]) = Pow(ProbScale, max_depth)

\* A tree of depth 2 whose three nodes route with three different
\* probabilities, none of them 0 or 1.
C8_Witness ==
    /\ terminal_prob # None
    /\ max_depth = 2
    /\ node_prob[1][1] = 1
    /\ node_prob[2][1] = 2
    /\ node_prob[2][2] = 1
    /\ terminal_prob[1] = <<2, 2, 1, 4>>

\* ------------------------------------------------------------- score and train
FullPassStarts(fd) ==
    [k \in 1..(fd.num_observations \div batch_size) |-> (k - 1) * batch_size]

ScoreReturned ==
    /\ pc = "idle"
    /\ returned.op = "score"
    /\ ~returned.raised

\* C2: whatever state the feeder is in when score(data) is called, the
\* batches score evaluates are the floor(N/B) batches of one full pass,
\* starting at row 0, and the value returned is computed from a non-empty
\* list of losses.
C2_ScoreIsAFullPass ==
    ScoreReturned =>
        /\ score_call.starts = FullPassStarts(feeder[score_call.data])
        /\ score_call.scores # <<>>
        /\ ~IsNan(returned.value)

\* From a feeder whose cursor is 0 and whose flag is clear, score does
\* evaluate one full pass.
C2_ScoreFromRewoundFeederIsAFullPass ==
    (ScoreReturned /\ score_call.pre_index = 0 /\ ~score_call.pre_end) =>
        /\ score_call.starts = FullPassStarts(feeder[score_call.data])
        /\ score_call.scores # <<>>

TrainReturned ==
    /\ pc = "idle"
    /\ returned.op = "train"
    /\ ~returned.raised

Appended == Len(fit_log.batch_number) - train_call.base

C7_SaveRestoreRoundTrip ==
    /\ (returned.op = "save") => session = roundtrip.values
    /\ (roundtrip.active /\ roundtrip.restored) =>
           /\ returned.op = "restore"
           /\ ~returned.raised
           /\ session = roundtrip.values

\* Optimization steps after the save changed the parameters, and the
\* restore brought the saved values back.
C7_Witness ==
    /\ roundtrip.active
    /\ roundtrip.restored
    /\ roundtrip.overwritten # roundtrip.values
    /\ session = roundtrip.values

\* ------------------------------------------------------------- the log
IsPrefix(s, t) == Len(s) <= Len(t) /\ SubSeq(t, 1, Len(s)) = s

TrainLogs ==
    /\ pc = "score"
    /\ score_call.caller = "train"
    /\ train_call.caller = "train"

\* C11: the two lists of the log always have the same length; a step of
\* train, score, save or restore leaves the entries already logged where
\* they are, and only train, after a validation pass, adds one.
C11_LogIsAppendOnly ==
    /\ Len(fit_log.batch_number) = Len(fit_log.validation_score)
    /\ [][/\ Len(fit_log'.batch_number) = Len(fit_log'.validation_score)
          /\ IsPrefix(fit_log.batch_number, fit_log'.batch_number)
          /\ IsPrefix(fit_log.validation_score, fit_log'.validation_score)
          /\ fit_log' # fit_log =>
                 /\ TrainLogs
                 /\ Len(fit_log'.batch_number) = Len(fit_log.batch_number) + 1]_vars

\* Two calls of train have logged one entry each, and a save and a restore
\* later the log still holds them.
C11_Witness ==
    /\ fit_log.batch_number = <<1, 1>>
    /\ returned.op = "restore"
    /\ ~returned.raised

\* ------------------------------------------------------------- depth 0
GraphBuildEnded == terminal_prob # None \/ graph_error

\* C12: a model with max_depth = 0 is built without error and has one leaf
\* whose path probability is 1.
C12_DepthZeroIsASingleLeaf ==
    (max_depth = 0 /\ GraphBuildEnded) =>
        /\ ~graph_error
        /\ terminal_prob = Some(<<1>>)

\* ------------------------------------------------------------- the gather
\* C13: at every level d < D the gather yields 2^D rows, each reading one
\* node of the level in one direction (prob_with_complement holds prob for
\* the 2^d nodes and then 1 - prob for the same nodes); leaves that make the
\* same choice at level d read the same node at level d + 1 and leaves that
\* make different choices read different ones; every node of level d is read
\* by 2^(D-d) leaves, half in each direction; no two leaves have the same
\* sequence of choices.
C13_GatherEncodesABinaryTree ==
    terminal_prob # None =>
        LET LeafRows == 1..Pow(2, max_depth)
            Levels == 0..(max_depth - 1)
        IN /\ \A d \in Levels :
                  LET index == GatherIndices(d, max_depth)
                      below == GatherIndices(d + 1, max_depth)
                      split_prob == BuildSplitProb(node_prob[d + 1], d, max_depth)
                      nodes == Pow(2, d)
                  IN /\ Len(index) = Pow(2, max_depth)
                     /\ \A l \in LeafRows :
                            /\ index[l] \in 0..(2 * nodes - 1)
                            /\ split_prob[l]
                                   = IF index[l] \div nodes = 0
                                     THEN node_prob[d + 1][(index[l] % nodes) + 1]
                                     ELSE ProbScale - node_prob[d + 1][(index[l] % nodes) + 1]
                     /\ \A n \in 0..(nodes - 1), dir \in 0..1 :
                            Cardinality({l \in LeafRows :
                                            /\ index[l] % nodes = n
                                            /\ index[l] \div nodes = dir})
                                = Pow(2, max_depth - d - 1)
                     /\ d + 1 < max_depth =>
                            \A l1 \in LeafRows, l2 \in LeafRows :
                                (index[l1] = index[l2])
                                    <=> (below[l1] % (2 * nodes) = below[l2] % (2 * nodes))
           /\ Cardinality({[d \in Levels |-> GatherIndices(d, max_depth)[l]] :
                              l \in LeafRows}) = Pow(2, max_depth)

\* A tree of depth 2 is built: its four leaves read the root as
\* prob, 1 - prob, prob, 1 - prob and one row each of the second level.
C13_Witness ==
    /\ terminal_prob # None
    /\ max_depth = 2
    /\ GatherIndices(0, max_depth) = <<0, 1, 0, 1>>
    /\ GatherIndices(1, max_depth) = <<0, 1, 2, 3>>
    /\ node_prob[2][1] # node_prob[2][2]

\* ------------------------------------------------------------- parameters
OptimizerStep == pc = "train_steps" /\ train_call.left > 0

RestoreStep == pc = "idle" /\ returned'.op = "restore" /\ ~returned'.raised

\* C14 as stated: only an optimization step changes the parameters.
C14_OnlyTheOptimizerWritesParameters ==
    [][session' # session => OptimizerStep]_vars

\* C14: the parameters change only in an optimization step or in restore,
\* which assigns them the checkpoint's values; score, the validation passes
\* of train included, the feeder's calls and save leave them as they are.
C14_OnlyOptimizerAndRestoreWriteParameters ==
    [][/\ session' # session => (OptimizerStep \/ RestoreStep)
       /\ RestoreStep => \E filename \in Filenames :
                             /\ checkpoint[filename] # None
                             /\ session' = checkpoint[filename][1]
       /\ pc = "score" => session' = session
       /\ returned'.op = "save" => session' = session]_vars

\* After a train call with its validation pass, a restore has put back
\* parameter values other than the ones training had left.
C14_Witness ==
    /\ returned.op = "restore"
    /\ ~returned.raised
    /\ roundtrip.restored
    /\ roundtrip.overwritten # session
    /\ fit_log.batch_number # <<>>

\* ------------------------------------------------------------- get_batch
\* C15: a get_batch(B) that raises changes nothing; one that returns serves
\* rows [cursor, cursor + B) of the order in force when it was called, and
\* then either advances the cursor by B, leaving order and flag alone (when
\* the advanced cursor + B <= N), or resets the cursor to 0 and sets the flag
\* (when the advanced cursor + B > N), reshuffling predictors and response
\* by one permutation if shuffle_each_epoch is set and leaving the order
\* alone if it is not.  While shuffle_each_epoch is not set, no call but
\* shuffle changes the order.
C15_GetBatchReordersOnlyAtAWrap ==
    [][LET pre == feeder["train"]
           post == feeder'["train"]
           N == pre.num_observations
       IN /\ lastCall'.op = "get_batch" =>
                 LET B == lastCall'.arg[1]
                     advanced == pre.batch_index + B
                 IN IF lastCall'.raised
                    THEN post = pre /\ rng' = rng
                    ELSE /\ batch_data'.predictors
                                = SubSeq(pre.predictors, pre.batch_index + 1, advanced)
                         /\ batch_data'.response
                                = SubSeq(pre.response, pre.batch_index + 1, advanced)
                         /\ advanced + B <= N =>
                                /\ post = [pre EXCEPT !.batch_index = advanced]
                                /\ rng' = rng
                         /\ advanced + B > N =>
                                /\ post.batch_index = 0
                                /\ post.reached_end
                                /\ post.num_observations = N
                                /\ post.shuffle_each_epoch = pre.shuffle_each_epoch
                                /\ IF pre.shuffle_each_epoch
                                   THEN /\ Len(post.predictors) = N
                                        /\ Len(post.response) = N
                                        /\ \A j \in 1..N : \E i \in 1..N :
                                               /\ post.predictors[i] = pre.predictors[j]
                                               /\ post.response[i] = pre.response[j]
                                        /\ rng = <<>> => rng' = <<>>
                                        /\ rng # <<>> =>
                                               \E d \in NpRandomPermutation(rng, N) :
                                                   /\ post.predictors
                                                          = TakeRows(pre.predictors,
                                                                     d.new_order)
                                                   /\ rng' = d.rng
                                   ELSE /\ post.predictors = pre.predictors
                                        /\ post.response = pre.response
                                        /\ rng' = rng
          /\ (lastCall'.op # "shuffle" /\ ~pre.shuffle_each_epoch) =>
                 /\ post.predictors = pre.predictors
                 /\ post.response = pre.response]_vars

\* A get_batch(1) has wrapped a three-row feeder that shuffles each epoch:
\* the rows are in a new order, and the batch served is the last row of the
\* old one.
C15_Witness ==
    /\ lastCall.op = "get_batch"
    /\ ~lastCall.raised
    /\ lastCall.arg = Some(1)
    /\ lastCall.pre.shuffle_each_epoch
    /\ lastCall.pre.batch_index = 2
    /\ feeder["train"].num_observations = 3
    /\ feeder["train"].batch_index = 0
    /\ feeder["train"].reached_end
    /\ feeder["train"].predictors # lastCall.pre.predictors
    /\ batch_data.predictors = <<lastCall.pre.predictors[3]>>
    /\ batch_data.predictors # <<feeder["train"].predictors[3]>>

\* ------------------------------------------------------------- dropout
\* C16: models that differ in the configured dropout rate only, given the
\* same train and score calls on the same feeders, have the same parameters,
\* compute the same losses and log the same scores.
C16_DropoutHasNoInfluence ==
    \A r \in DropoutRates :
        /\ twin[r].session = session
        /\ twin[r].fit_log = fit_log
        /\ twin[r].scores = score_call.scores

\* A train call has changed the parameters and logged a score computed from
\* a loss, in the model and in its twins.
C16_Witness ==
    /\ TrainReturned
    /\ session # 0
    /\ Len(fit_log.validation_score) = 1
    /\ fit_log.validation_score[1].n > 0
    /\ \A r \in DropoutRates : twin[r].session # 0 /\ twin[r].fit_log # EmptyLog

\* ------------------------------------------------------------- after score
\* score has just returned, to its caller or to train.
ScoreJustReturned ==
    \/ ScoreReturned
    \/ pc = "train_while" /\ train_call.caller = "train" /\ train_call.passes > 0

\* C17: whenever score(data) returns, the cursor of data is 0 and its flag
\* is clear; every pass over the validation feeder, which only score
\* touches, evaluates floor(N/B) batches.
C17_ScoreLeavesTheFeederRewound ==
    ScoreJustReturned =>
        LET fd == feeder[score_call.data]
        IN /\ fd.batch_index = 0
           /\ ~fd.reached_end
           /\ score_call.data = "validation" =>
                  Len(score_call.scores) = fd.num_observations \div batch_size

\* On the validation feeder, which no training step touches, it is so.
C17_ScoreLeavesTheValidationFeederRewound ==
    (ScoreJustReturned /\ score_call.data = "validation") =>
        LET fd == feeder["validation"]
        IN /\ fd.batch_index = 0
           /\ ~fd.reached_end
           /\ Len(score_call.scores) = fd.num_observations \div batch_size

\* ------------------------------------------------------------- the cursor
\* C18: on a feeder used with one batch size B <= N, the cursor is always a
\* multiple of B between 0 and N - B, so that the slice of the next
\* get_batch(B) holds B rows and no get_batch(B) has raised.
C18_CursorStaysInBounds ==
    LET fd == feeder["train"]
        N == fd.num_observations
        B == batch_size
    IN /\ fd.batch_index % B = 0
       /\ 0 <= fd.batch_index
       /\ fd.batch_index <= N - B
       /\ Len(SubSeq(fd.predictors, fd.batch_index + 1, fd.batch_index + B)) = B
       /\ fd.batch_index + B <= Len(fd.predictors)
       /\ fd.batch_index + B <= Len(fd.response)
       /\ lastCall.op = "get_batch" =>
              /\ ~lastCall.raised
              /\ Len(batch_data.predictors) = B
              /\ Len(batch_data.response) = B

\* After two get_batch(1) on three rows the cursor is at N - B = 2, the last
\* position a full batch can start from.
C18_Witness ==
    /\ lastCall.op = "get_batch"
    /\ batch_size = 1
    /\ feeder["train"].num_observations = 3
    /\ feeder["train"].batch_index = 2
    /\ Len(batch_data.predictors) = 1

====
